---- MODULE Spec2Model ----
(***************************************************************************)
(* The IoT gateway of iot-device: the packet validator, the batch buffer  *)
(* with its flush on BATCH_SIZE, the packet generator and main's loop.     *)
(*                                                                         *)
(* Several specifications drive the same code:                             *)
(*   Spec      process_packet called with arbitrary fixture packets while  *)
(*             the wall clock advances;                                    *)
(*   SpecFeed  a longer run of process_packet calls, through two flushes;  *)
(*   SpecMain  the reference run of main (generate_packet, then            *)
(*             process_packet, 12 times), SpecMainFair with main's steps   *)
(*             weakly fair;                                                *)
(*   SpecUnit  validate_packet called on one packet drawn from a wide set  *)
(*             of field values, at several clock readings;                 *)
(*   SpecAnomaly  is_anomalous called on packets around its thresholds.    *)
(***************************************************************************)
EXTENDS Integers, Sequences, FiniteSets, TLC

VARIABLES
    batch_buffer,   \* gateway.cpp:7    std::vector<IoTPacket> batch_buffer
    seq_counter,    \* esp32_simulator.cpp:5   static int seq_counter
    clock,          \* the value std::time(nullptr) returns when read
    cout,           \* std::cout: the lines written so far, in order
    pc,             \* where the driver stands
    i,              \* main.cpp:11   the loop counter of main
    pkt,            \* main.cpp:12   main's local pkt; SpecUnit's packet under test
    exit_code,      \* main's return value, -1 while main has not returned
    rand_stream,    \* the stream of rand() results that srand selected
    rand_count,     \* how many rand() calls were made
    calls,          \* history: every process_packet call so far, [pkt, now]
    flushes,        \* history: the number of the call in which each send_batch_to_server ran
    verdicts,       \* history: every validate_packet call of SpecUnit, [now, result]
    anomalies       \* history: the results of the is_anomalous calls of SpecAnomaly

vars == <<batch_buffer, seq_counter, clock, cout, pc, i, pkt, exit_code,
          rand_stream, rand_count, calls, flushes, verdicts, anomalies>>

(***************************************************************************)
(* Bounds of the model.                                                    *)
(***************************************************************************)
MaxClock == 1      \* the wall clock runs through 0..MaxClock
MaxCalls == 6      \* process_packet calls in one behaviour of Spec
MaxFeed == 11      \* process_packet calls in one behaviour of SpecFeed

(***************************************************************************)
(* Program constants.                                                      *)
(***************************************************************************)
BATCH_SIZE == 5
SEQ_MIN == 0
TEMP_MIN == -20
TEMP_MAX == 100
PERCENT_MIN == 0
PERCENT_MAX == 100
FUTURE_TOLERANCE == 5
LOOP_COUNT == 12

(***************************************************************************)
(* float.  A float field holds a number or NaN; every ordered comparison   *)
(* with a NaN operand is false (IEEE 754).  The numbers of the model are   *)
(* integers: the code compares floats only with integer constants.         *)
(***************************************************************************)
Fl(v) == [nan |-> FALSE, val |-> v]
NaN == [nan |-> TRUE, val |-> 0]
FLt(a, b) == ~a.nan /\ ~b.nan /\ a.val < b.val
FGt(a, b) == ~a.nan /\ ~b.nan /\ a.val > b.val

(***************************************************************************)
(* packet.h: struct IoTPacket.                                             *)
(***************************************************************************)
IoTPacket(dev, seq, temp, hum, rate, cpu, bat, ts) ==
    [device_id |-> dev, sequence_no |-> seq, temperature |-> temp,
     humidity |-> hum, packet_rate |-> rate, cpu_usage |-> cpu,
     battery_level |-> bat, timestamp |-> ts]

NoPacket == IoTPacket("", 0, Fl(0), Fl(0), 0, Fl(0), Fl(0), 0)

(***************************************************************************)
(* gateway.cpp:10-19  validate_packet.  The function has one parameter and *)
(* reads the current time itself, std::time(nullptr): here the variable    *)
(* clock.                                                                  *)
(***************************************************************************)
time == clock

\* gateway.cpp:12-18 with the timestamp test the other way round
validate_packet_at_stale(p, now) ==
    IF p.sequence_no <= SEQ_MIN THEN FALSE
    ELSE IF FLt(p.temperature, Fl(TEMP_MIN)) \/ FGt(p.temperature, Fl(TEMP_MAX)) THEN FALSE
    ELSE IF FLt(p.cpu_usage, Fl(PERCENT_MIN)) \/ FGt(p.cpu_usage, Fl(PERCENT_MAX)) THEN FALSE
    ELSE IF FLt(p.battery_level, Fl(PERCENT_MIN)) \/ FGt(p.battery_level, Fl(PERCENT_MAX)) THEN FALSE
    ELSE IF p.timestamp < now + FUTURE_TOLERANCE THEN FALSE
    ELSE TRUE

\* gateway.cpp:12-18 with >= in the timestamp test
validate_packet_at_strict(p, now) ==
    IF p.sequence_no <= SEQ_MIN THEN FALSE
    ELSE IF FLt(p.temperature, Fl(TEMP_MIN)) \/ FGt(p.temperature, Fl(TEMP_MAX)) THEN FALSE
    ELSE IF FLt(p.cpu_usage, Fl(PERCENT_MIN)) \/ FGt(p.cpu_usage, Fl(PERCENT_MAX)) THEN FALSE
    ELSE IF FLt(p.battery_level, Fl(PERCENT_MIN)) \/ FGt(p.battery_level, Fl(PERCENT_MAX)) THEN FALSE
    ELSE IF p.timestamp >= now + FUTURE_TOLERANCE THEN FALSE
    ELSE TRUE

\* gateway.cpp:12-18 with < in the sequence_no test
validate_packet_at_seq0(p, now) ==
    IF p.sequence_no < SEQ_MIN THEN FALSE
    ELSE IF FLt(p.temperature, Fl(TEMP_MIN)) \/ FGt(p.temperature, Fl(TEMP_MAX)) THEN FALSE
    ELSE IF FLt(p.cpu_usage, Fl(PERCENT_MIN)) \/ FGt(p.cpu_usage, Fl(PERCENT_MAX)) THEN FALSE
    ELSE IF FLt(p.battery_level, Fl(PERCENT_MIN)) \/ FGt(p.battery_level, Fl(PERCENT_MAX)) THEN FALSE
    ELSE IF p.timestamp > now + FUTURE_TOLERANCE THEN FALSE
    ELSE TRUE

\* gateway.cpp:12-18, now being the value std::time(nullptr) returns on line 16
validate_packet_at(p, now) ==
    IF p.sequence_no <= SEQ_MIN THEN FALSE
    ELSE IF FLt(p.temperature, Fl(TEMP_MIN)) \/ FGt(p.temperature, Fl(TEMP_MAX)) THEN FALSE
    ELSE IF FLt(p.cpu_usage, Fl(PERCENT_MIN)) \/ FGt(p.cpu_usage, Fl(PERCENT_MAX)) THEN FALSE
    ELSE IF FLt(p.battery_level, Fl(PERCENT_MIN)) \/ FGt(p.battery_level, Fl(PERCENT_MAX)) THEN FALSE
    ELSE IF p.timestamp > now + FUTURE_TOLERANCE THEN FALSE
    ELSE TRUE

validate_packet(p) == validate_packet_at(p, time)

(***************************************************************************)
(* anomaly_detector.cpp:3-7  is_anomalous.                                 *)
(***************************************************************************)
ANOMALY_TEMP == 60
ANOMALY_RATE == 100

is_anomalous_ge(p) ==
    IF FGt(p.temperature, Fl(ANOMALY_TEMP)) \/ p.temperature = Fl(ANOMALY_TEMP) THEN TRUE
    ELSE IF p.packet_rate > ANOMALY_RATE THEN TRUE
    ELSE FALSE

is_anomalous(p) ==
    IF FGt(p.temperature, Fl(ANOMALY_TEMP)) THEN TRUE
    ELSE IF p.packet_rate > ANOMALY_RATE THEN TRUE
    ELSE FALSE

(***************************************************************************)
(* The lines of std::cout.                                                 *)
(***************************************************************************)
DeviceLogLine(p) ==
    [tag |-> "DEVICE LOG", device_id |-> p.device_id, seq |-> p.sequence_no,
     temp |-> p.temperature, cpu |-> p.cpu_usage, battery |-> p.battery_level]

DroppedLine_count(p) == [tag |-> "INVALID PACKET DROPPED", seq |-> Len(calls)]

DroppedLine(p) == [tag |-> "INVALID PACKET DROPPED", seq |-> p.sequence_no]

BatchHeader == [tag |-> "SENDING BATCH TO SERVER"]

\* gateway.cpp:26-34: one line with all eight fields of the packet.
PacketLine(p) == [tag |-> "PACKET", pkt |-> p]

(***************************************************************************)
(* gateway.cpp:22-38  send_batch_to_server: the header, one line per       *)
(* packet of the buffer in buffer order, then batch_buffer.clear().        *)
(***************************************************************************)
BatchLines_reversed(buf) ==
    <<BatchHeader>> \o [k \in 1..Len(buf) |-> PacketLine(buf[Len(buf) + 1 - k])]

BatchLines(buf) == <<BatchHeader>> \o [k \in 1..Len(buf) |-> PacketLine(buf[k])]

Cleared_keeps(buf) == buf

\* line 37
Cleared(buf) == <<>>

(***************************************************************************)
(* gateway.cpp:41-54  process_packet.                                      *)
(***************************************************************************)
push_back_front(buf, p) == <<p>> \o buf

\* line 49
push_back(buf, p) == Append(buf, p)

BatchFull_gt(buf) == Len(buf) > BATCH_SIZE

BatchFull_early(buf) == Len(buf) >= BATCH_SIZE - 1

\* line 51
BatchFull(buf) == Len(buf) >= BATCH_SIZE

Rejects_never(p) == FALSE

Rejects_anomalous(p) == ~validate_packet(p) \/ is_anomalous(p)

\* line 43
Rejects(p) == ~validate_packet(p)

process_packet(p) ==
    /\ calls' = Append(calls, [pkt |-> p, now |-> time])
    /\ IF Rejects(p)
       THEN /\ cout' = Append(cout, DroppedLine(p))
            /\ batch_buffer' = batch_buffer
            /\ flushes' = flushes
       ELSE LET pushed == push_back(batch_buffer, p) IN
            IF BatchFull(pushed)
            THEN /\ cout' = cout \o BatchLines(pushed)
                 /\ batch_buffer' = Cleared(pushed)
                 /\ flushes' = Append(flushes, Len(calls) + 1)
            ELSE /\ cout' = cout
                 /\ batch_buffer' = pushed
                 /\ flushes' = flushes

(***************************************************************************)
(* The wall clock: it only advances.                                       *)
(***************************************************************************)
Tick ==
    /\ clock < MaxClock
    /\ clock' = clock + 1
    /\ UNCHANGED <<batch_buffer, seq_counter, cout, pc, i, pkt, exit_code,
                 rand_stream, rand_count, calls, flushes, verdicts, anomalies>>

(***************************************************************************)
(* Spec: process_packet on fixture packets.                                *)
(***************************************************************************)
\* in range in every field, and anomalous (temperature above 60)
HotPacket == IoTPacket("ESP32_SIM_01", 1, Fl(61), Fl(50), 10, Fl(50), Fl(50), 0)
\* in range, stamped FUTURE_TOLERANCE + 1: too far ahead while the clock reads 0
AheadPacket == IoTPacket("ESP32_SIM_01", 2, Fl(25), Fl(50), 10, Fl(50), Fl(50), FUTURE_TOLERANCE + 1)
\* sequence_no 0
ZeroSeqPacket == IoTPacket("ESP32_SIM_01", 0, Fl(25), Fl(50), 10, Fl(50), Fl(50), 0)

TestPackets == {HotPacket, AheadPacket, ZeroSeqPacket}

Init ==
    /\ batch_buffer = <<>>
    /\ seq_counter = 0
    /\ clock = 0
    /\ cout = <<>>
    /\ pc = "gateway"
    /\ i = 0
    /\ pkt = NoPacket
    /\ exit_code = -1
    /\ rand_stream = 0
    /\ rand_count = 0
    /\ calls = <<>>
    /\ flushes = <<>>
    /\ verdicts = {}
    /\ anomalies = {}

Call ==
    /\ pc = "gateway"
    /\ Len(calls) < MaxCalls
    /\ \E p \in TestPackets : process_packet(p)
    /\ UNCHANGED <<seq_counter, clock, pc, i, pkt, exit_code, rand_stream, rand_count, verdicts, anomalies>>

Next == Call \/ Tick

Spec == Init /\ [][Next]_vars

(***************************************************************************)
(* SpecFeed: a longer feed of process_packet calls, long enough for two    *)
(* flushes, with an accepted and a rejected fixture packet.  Neither       *)
(* verdict depends on the time, and the clock stays where it is.           *)
(***************************************************************************)
FeedPackets == {HotPacket, ZeroSeqPacket}

InitFeed ==
    /\ batch_buffer = <<>>
    /\ seq_counter = 0
    /\ clock = 0
    /\ cout = <<>>
    /\ pc = "feed"
    /\ i = 0
    /\ pkt = NoPacket
    /\ exit_code = -1
    /\ rand_stream = 0
    /\ rand_count = 0
    /\ calls = <<>>
    /\ flushes = <<>>
    /\ verdicts = {}
    /\ anomalies = {}

FeedCall ==
    /\ pc = "feed"
    /\ Len(calls) < MaxFeed
    /\ \E p \in FeedPackets : process_packet(p)
    /\ UNCHANGED <<seq_counter, clock, pc, i, pkt, exit_code, rand_stream, rand_count,
                   verdicts, anomalies>>

NextFeed == FeedCall

SpecFeed == InitFeed /\ [][NextFeed]_vars

(***************************************************************************)
(* rand().  After srand the results of rand() are one fixed stream; which  *)
(* one is the C library's business.  The model lets srand select among     *)
(* three streams: every result 0, every result 419 (the largest residue    *)
(* modulo 10, 20, 60 and 70 at once), and one that varies call by call.    *)
(* rand(s, n) is the result of call number n (from 0) of stream s.         *)
(***************************************************************************)
RandStreams == {0, 1, 2}

rand(s, n) == IF s = 0 THEN 0 ELSE IF s = 1 THEN 419 ELSE (37 * n + 11) % 420

(***************************************************************************)
(* esp32_simulator.cpp:7-21  generate_packet: the packet it returns.  An   *)
(* int result is converted to float on assignment to a float field,        *)
(* exactly for values this small.                                          *)
(***************************************************************************)
next_seq_skip(c) == c + 2

\* line 10: ++seq_counter
next_seq(c) == c + 1

generate_packet_ahead ==
    IoTPacket("ESP32_SIM_01",
              next_seq(seq_counter),
              Fl(25 + (rand(rand_stream, rand_count) % 10)),
              Fl(45 + (rand(rand_stream, rand_count + 1) % 20)),
              10 + (rand(rand_stream, rand_count + 2) % 10),
              Fl(20 + (rand(rand_stream, rand_count + 3) % 60)),
              Fl(30 + (rand(rand_stream, rand_count + 4) % 70)),
              time + FUTURE_TOLERANCE + 1)

generate_packet ==
    IoTPacket("ESP32_SIM_01",
              next_seq(seq_counter),
              Fl(25 + (rand(rand_stream, rand_count) % 10)),
              Fl(45 + (rand(rand_stream, rand_count + 1) % 20)),
              10 + (rand(rand_stream, rand_count + 2) % 10),
              Fl(20 + (rand(rand_stream, rand_count + 3) % 60)),
              Fl(30 + (rand(rand_stream, rand_count + 4) % 70)),
              time)

(***************************************************************************)
(* SpecMain: main.cpp:8-26.                                                *)
(***************************************************************************)
InitMain ==
    /\ batch_buffer = <<>>
    /\ seq_counter = 0
    /\ clock = 0
    /\ cout = <<>>
    /\ pc = "srand"
    /\ i = 0
    /\ pkt = NoPacket
    /\ exit_code = -1
    /\ rand_stream = 0
    /\ rand_count = 0
    /\ calls = <<>>
    /\ flushes = <<>>
    /\ verdicts = {}
    /\ anomalies = {}

LoopContinues_le(k) == k <= LOOP_COUNT

\* main.cpp:11: i < 12
LoopContinues(k) == k < LOOP_COUNT

\* main.cpp:9: srand(time(nullptr))
MainSrand ==
    /\ pc = "srand"
    /\ rand_stream' \in RandStreams
    /\ rand_count' = 0
    /\ pc' = "loop"
    /\ UNCHANGED <<batch_buffer, seq_counter, clock, cout, i, pkt, exit_code, calls, flushes, verdicts, anomalies>>

\* main.cpp:12-20: generate_packet, then the device log line
MainGenerate ==
    /\ pc = "loop"
    /\ LoopContinues(i)
    /\ pkt' = generate_packet
    /\ seq_counter' = next_seq(seq_counter)
    /\ rand_count' = rand_count + 5
    /\ cout' = Append(cout, DeviceLogLine(generate_packet))
    /\ pc' = "process"
    /\ UNCHANGED <<batch_buffer, clock, i, exit_code, rand_stream, calls, flushes, verdicts, anomalies>>

\* main.cpp:22 and the i++ of line 11
MainProcess ==
    /\ pc = "process"
    /\ process_packet(pkt)
    /\ i' = i + 1
    /\ pc' = "loop"
    /\ UNCHANGED <<seq_counter, clock, pkt, exit_code, rand_stream, rand_count, verdicts, anomalies>>

\* main.cpp:25
MainReturn ==
    /\ pc = "loop"
    /\ ~LoopContinues(i)
    /\ exit_code' = 0
    /\ pc' = "done"
    /\ UNCHANGED <<batch_buffer, seq_counter, clock, cout, i, pkt,
                   rand_stream, rand_count, calls, flushes, verdicts, anomalies>>

NextMain == MainSrand \/ MainGenerate \/ MainProcess \/ MainReturn \/ Tick

SpecMain == InitMain /\ [][NextMain]_vars

\* main is the only thread and none of its statements blocks: the statement
\* it stands at is executed.  The clock is under no such obligation.
MainStep == MainSrand \/ MainGenerate \/ MainProcess \/ MainReturn

SpecMainFair == SpecMain /\ WF_vars(MainStep)

(***************************************************************************)
(* SpecUnit: validate_packet on one packet, at the clock readings the      *)
(* clock runs through.                                                     *)
(***************************************************************************)
UnitSeqs == {-1, 0, 1}
UnitTemps == {Fl(-21), Fl(-20), Fl(100), Fl(101), NaN}
UnitPercents == {Fl(-1), Fl(0), Fl(100), Fl(101), NaN}
UnitStamps == {0} \cup (FUTURE_TOLERANCE .. (MaxClock + FUTURE_TOLERANCE + 1))
UnitDevices == {"ESP32_SIM_01", "OTHER"}
UnitHumidities == {Fl(50), NaN}
UnitRates == {10, 101}

UnitPackets ==
    {IoTPacket(d, s, t, h, r, c, b, ts) :
        d \in UnitDevices, s \in UnitSeqs, t \in UnitTemps, h \in UnitHumidities,
        r \in UnitRates, c \in UnitPercents, b \in UnitPercents, ts \in UnitStamps}

InitUnit ==
    /\ batch_buffer = <<>>
    /\ seq_counter = 0
    /\ clock = 0
    /\ cout = <<>>
    /\ pc = "unit"
    /\ i = 0
    /\ pkt \in UnitPackets
    /\ exit_code = -1
    /\ rand_stream = 0
    /\ rand_count = 0
    /\ calls = <<>>
    /\ flushes = <<>>
    /\ verdicts = {}
    /\ anomalies = {}

UnitValidate ==
    /\ pc = "unit"
    /\ verdicts' = verdicts \cup {[now |-> time, result |-> validate_packet(pkt)]}
    /\ UNCHANGED <<batch_buffer, seq_counter, clock, cout, pc, i, pkt, exit_code,
                   rand_stream, rand_count, calls, flushes, anomalies>>

NextUnit == UnitValidate \/ Tick

SpecUnit == InitUnit /\ [][NextUnit]_vars

(***************************************************************************)
(* SpecAnomaly: is_anomalous on one packet drawn from the values around    *)
(* its two thresholds.                                                     *)
(***************************************************************************)
AnomalyTemps == {Fl(25), Fl(60), Fl(61), Fl(101), NaN}
AnomalyRates == {10, 100, 101}

AnomalyPackets ==
    {IoTPacket(d, s, t, h, r, c, b, ts) :
        d \in UnitDevices, s \in {0, 1}, t \in AnomalyTemps, h \in UnitHumidities,
        r \in AnomalyRates, c \in {Fl(50), Fl(101)}, b \in {Fl(50), Fl(-1)},
        ts \in {0, FUTURE_TOLERANCE + 1}}

InitAnomaly ==
    /\ batch_buffer = <<>>
    /\ seq_counter = 0
    /\ clock = 0
    /\ cout = <<>>
    /\ pc = "anomaly"
    /\ i = 0
    /\ pkt \in AnomalyPackets
    /\ exit_code = -1
    /\ rand_stream = 0
    /\ rand_count = 0
    /\ calls = <<>>
    /\ flushes = <<>>
    /\ verdicts = {}
    /\ anomalies = {}

AnomalyCall ==
    /\ pc = "anomaly"
    /\ anomalies' = anomalies \cup {is_anomalous(pkt)}
    /\ UNCHANGED <<batch_buffer, seq_counter, clock, cout, pc, i, pkt, exit_code,
                   rand_stream, rand_count, calls, flushes, verdicts>>

NextAnomaly == AnomalyCall \/ Tick

SpecAnomaly == InitAnomaly /\ [][NextAnomaly]_vars

(***************************************************************************)
(* What the claims observe.                                                *)
(***************************************************************************)
\* The batches the sink received: for every header line of cout, the
\* packets of the packet lines that follow it, in output order.
SinkBatches(out) ==
    LET IsHeader(k) == out[k].tag = "SENDING BATCH TO SERVER"
        IsPacketLine(line) == line.tag = "PACKET"
        headers == SelectSeq([k \in 1..Len(out) |-> k], IsHeader)
        lines(j) == SelectSeq(SubSeq(out, headers[j] + 1,
                                     IF j < Len(headers) THEN headers[j + 1] - 1 ELSE Len(out)),
                              IsPacketLine)
    IN  [j \in 1..Len(headers) |-> [k \in 1..Len(lines(j)) |-> lines(j)[k].pkt]]

\* Whether the validator returned true in call c.
IsAccepted(c) == validate_packet_at(c.pkt, c.now)

\* The packets of the calls numbered lo+1 .. hi that the validator accepted,
\* in call order.
AcceptedIn(lo, hi) ==
    LET sel == SelectSeq(SubSeq(calls, lo + 1, hi), IsAccepted)
    IN  [k \in 1..Len(sel) |-> sel[k].pkt]

Accepted == AcceptedIn(0, Len(calls))

SeqNos(packets) == [k \in 1..Len(packets) |-> packets[k].sequence_no]

(***************************************************************************)
(* C1.  Every flush passes to the sink exactly the packets appended since  *)
(* the previous flush (or since the start), in the order they were         *)
(* appended, none missing and none repeated, and the buffer is empty when  *)
(* the flush returns.                                                      *)
(***************************************************************************)
C1_FlushDeliversPending ==
    LET sent == SinkBatches(cout) IN
    /\ Len(sent) = Len(flushes)
    /\ \A k \in 1..Len(flushes) :
          sent[k] = AcceptedIn(IF k = 1 THEN 0 ELSE flushes[k - 1], flushes[k])
    /\ (Len(flushes) > 0 /\ flushes[Len(flushes)] = Len(calls)) => batch_buffer = <<>>

\* the second flush of a run has just returned
C1_Witness ==
    /\ Len(flushes) = 2
    /\ flushes[2] = Len(calls)
    /\ Len(SinkBatches(cout)) = 2
    /\ SinkBatches(cout)[2] # SinkBatches(cout)[1]

(***************************************************************************)
(* C2.  From an empty buffer, once exactly BATCH_SIZE (5) packets were     *)
(* accepted, exactly one flush has happened and the buffer holds 0         *)
(* packets.                                                                *)
(***************************************************************************)
C2_ThresholdFlushesOnce ==
    Len(Accepted) = BATCH_SIZE =>
        /\ Len(flushes) = 1
        /\ Len(SinkBatches(cout)) = 1
        /\ Len(batch_buffer) = 0

\* five calls, all five accepted
C2_Witness ==
    /\ Len(calls) = BATCH_SIZE
    /\ Len(Accepted) = BATCH_SIZE
    /\ Len(flushes) = 1
    /\ flushes[1] = BATCH_SIZE

(***************************************************************************)
(* C3.  From an empty buffer, once exactly BATCH_SIZE - 1 (4) packets were *)
(* accepted, no flush has happened and the buffer holds BATCH_SIZE - 1     *)
(* packets.                                                                *)
(***************************************************************************)
C3_BelowThresholdNoFlush ==
    Len(Accepted) = BATCH_SIZE - 1 =>
        /\ flushes = <<>>
        /\ Len(SinkBatches(cout)) = 0
        /\ Len(batch_buffer) = BATCH_SIZE - 1

\* four calls, all four accepted
C3_Witness ==
    /\ Len(calls) = BATCH_SIZE - 1
    /\ Len(Accepted) = BATCH_SIZE - 1
    /\ Len(batch_buffer) = BATCH_SIZE - 1

(***************************************************************************)
(* C4.  When the run of main ends, its 12 packets with sequence_no 1..12   *)
(* have caused exactly 2 flushes, one in the call for packet 5 and one in  *)
(* the call for packet 10, with packets 1..5 and 6..10, and packets 11 and *)
(* 12 are still in the buffer.                                             *)
(***************************************************************************)
C4_ReferenceRun ==
    pc = "done" =>
        /\ SeqNos([k \in 1..Len(calls) |-> calls[k].pkt]) = [k \in 1..12 |-> k]
        /\ flushes = <<5, 10>>
        /\ Len(SinkBatches(cout)) = 2
        /\ SeqNos(SinkBatches(cout)[1]) = <<1, 2, 3, 4, 5>>
        /\ SeqNos(SinkBatches(cout)[2]) = <<6, 7, 8, 9, 10>>
        /\ SeqNos(batch_buffer) = <<11, 12>>

\* main has returned after two flushes
C4_Witness ==
    /\ pc = "done"
    /\ exit_code = 0
    /\ Len(calls) = LOOP_COUNT
    /\ Len(SinkBatches(cout)) = 2
    /\ Len(batch_buffer) = 2

(***************************************************************************)
(* C5.  In every process_packet call the packet is appended to the end of  *)
(* the buffer if and only if the validator returns true for it, and it is  *)
(* rejected (dropped with one diagnostic line, the buffer as it was) if    *)
(* and only if the validator returns false: exactly one of the two.        *)
(***************************************************************************)
C5_AcceptedIffValid ==
    [][Len(calls') = Len(calls) + 1 =>
        LET c == calls'[Len(calls')]
            sent == SinkBatches(cout')
            appended ==
                \/ batch_buffer' = Append(batch_buffer, c.pkt)
                \/ /\ batch_buffer' = <<>>
                   /\ Len(sent) = Len(SinkBatches(cout)) + 1
                   /\ sent[Len(sent)] = Append(batch_buffer, c.pkt)
            rejected ==
                /\ batch_buffer' = batch_buffer
                /\ Len(cout') = Len(cout) + 1
                /\ cout'[Len(cout')].tag = "INVALID PACKET DROPPED"
        IN  /\ appended <=> IsAccepted(c)
            /\ rejected <=> ~IsAccepted(c)
            /\ appended <=> ~rejected
      ]_vars

\* the same packet was rejected in one call and accepted in a later one
C5_Witness ==
    \E j, k \in 1..Len(calls) :
        /\ j < k
        /\ calls[j].pkt = calls[k].pkt
        /\ ~IsAccepted(calls[j])
        /\ IsAccepted(calls[k])
        /\ Len(batch_buffer) > 0
        /\ batch_buffer[Len(batch_buffer)] = calls[k].pkt
        /\ k = Len(calls)

(***************************************************************************)
(* C6.  A process_packet call that rejects its packet leaves the buffer    *)
(* and the batches delivered to the sink unchanged, flushes nothing, and   *)
(* writes exactly one line, the diagnostic with the sequence number of the *)
(* rejected packet.                                                        *)
(***************************************************************************)
C6_RejectionFrame ==
    [][(Len(calls') = Len(calls) + 1 /\ ~IsAccepted(calls'[Len(calls')])) =>
        /\ batch_buffer' = batch_buffer
        /\ SinkBatches(cout') = SinkBatches(cout)
        /\ flushes' = flushes
        /\ Len(cout') = Len(cout) + 1
        /\ \A k \in 1..Len(cout) : cout'[k] = cout[k]
        /\ cout'[Len(cout')].tag = "INVALID PACKET DROPPED"
        /\ cout'[Len(cout')].seq = calls'[Len(calls')].pkt.sequence_no
      ]_vars

\* the last call rejected a packet after a batch had been delivered
C6_Witness ==
    /\ Len(calls) > 0
    /\ ~IsAccepted(calls[Len(calls)])
    /\ calls[Len(calls)].pkt.sequence_no # 0
    /\ Len(flushes) = 1
    /\ Len(SinkBatches(cout)) = 1
    /\ cout[Len(cout)].tag = "INVALID PACKET DROPPED"

(***************************************************************************)
(* C7.  validate returns false if and only if sequence_no <= 0, or         *)
(* temperature < -20 or > 100, or cpu_usage < 0 or > 100, or               *)
(* battery_level < 0 or > 100, or timestamp > now + 5; so it returns false *)
(* for every sequence_no <= 0, and humidity, packet_rate and device_id do  *)
(* not influence the result.                                               *)
(***************************************************************************)
Canonical(p) == [p EXCEPT !.device_id = "ESP32_SIM_01", !.humidity = Fl(50), !.packet_rate = 10]

C7_RejectConditions ==
    \A v \in verdicts :
        /\ (v.result = FALSE) <=>
              \/ pkt.sequence_no <= 0
              \/ FLt(pkt.temperature, Fl(-20)) \/ FGt(pkt.temperature, Fl(100))
              \/ FLt(pkt.cpu_usage, Fl(0)) \/ FGt(pkt.cpu_usage, Fl(100))
              \/ FLt(pkt.battery_level, Fl(0)) \/ FGt(pkt.battery_level, Fl(100))
              \/ pkt.timestamp > v.now + 5
        /\ pkt.sequence_no <= 0 => v.result = FALSE
        /\ v.result = validate_packet_at(Canonical(pkt), v.now)

\* sequence_no 0 alone made the validator return false
C7_Witness ==
    /\ pkt = IoTPacket("OTHER", 0, Fl(100), NaN, 101, Fl(0), Fl(100), 0)
    /\ [now |-> 1, result |-> FALSE] \in verdicts

(***************************************************************************)
(* C8.  validate returns false for every packet whose temperature is not   *)
(* in [-20, 100], and returns true at temperature -20 and at temperature   *)
(* 100 when all other fields are in range.                                 *)
(***************************************************************************)
InRange(x, lo, hi) == ~x.nan /\ lo <= x.val /\ x.val <= hi

OthersInRange(p, now) ==
    /\ p.sequence_no > 0
    /\ InRange(p.cpu_usage, 0, 100)
    /\ InRange(p.battery_level, 0, 100)
    /\ p.timestamp <= now + 5

C8_TemperatureRange ==
    \A v \in verdicts :
        /\ ~InRange(pkt.temperature, -20, 100) => v.result = FALSE
        /\ (OthersInRange(pkt, v.now) /\ pkt.temperature \in {Fl(-20), Fl(100)})
              => v.result = TRUE

(***************************************************************************)
(* C9.  With all other fields in range, validate returns true for every    *)
(* timestamp <= now + 5 (now + 5 itself and timestamps in the past         *)
(* included) and false for timestamp = now + 6.                            *)
(***************************************************************************)
AllButStampInRange(p) ==
    /\ p.sequence_no > 0
    /\ InRange(p.temperature, -20, 100)
    /\ InRange(p.cpu_usage, 0, 100)
    /\ InRange(p.battery_level, 0, 100)

C9_FreshnessWindow ==
    \A v \in verdicts :
        AllButStampInRange(pkt) =>
            /\ pkt.timestamp <= v.now + 5 => v.result = TRUE
            /\ pkt.timestamp = v.now + 6 => v.result = FALSE

\* one packet: true at timestamp = now + 5, false at timestamp = now + 6
C9_Witness ==
    /\ AllButStampInRange(pkt)
    /\ \E v, w \in verdicts :
          /\ pkt.timestamp = v.now + 5 /\ v.result = TRUE
          /\ pkt.timestamp = w.now + 6 /\ w.result = FALSE

(***************************************************************************)
(* C10.  As claimed: two validate calls with the same packet return the    *)
(* same result no matter when they are made.                               *)
(***************************************************************************)
C10_SameResultWhenever ==
    \A v, w \in verdicts : v.result = w.result

(***************************************************************************)
(* C10, amended.  validate reads the current time itself.  Two calls with  *)
(* the same packet return the same result when the clock reads the same;   *)
(* when the clock has advanced between them the result can only change     *)
(* from false to true, and only for a packet stamped more than 5 ahead of  *)
(* the earlier reading and at most 5 ahead of the later one.               *)
(***************************************************************************)
C10_ResultFollowsClock ==
    \A v, w \in verdicts :
        v.now <= w.now =>
            /\ v.now = w.now => v.result = w.result
            /\ v.result = TRUE => w.result = TRUE
            /\ v.result # w.result =>
                  /\ pkt.timestamp > v.now + 5
                  /\ pkt.timestamp <= w.now + 5

\* the same packet got false at one clock reading and true at a later one
C10_Witness ==
    \E v, w \in verdicts :
        /\ v.now < w.now
        /\ v.result = FALSE
        /\ w.result = TRUE

(***************************************************************************)
(* C11.  is_anomalous returns true if and only if temperature > 60 or      *)
(* packet_rate > 100: true at temperature 61, false at temperature 60      *)
(* with packet_rate not above 100, true at packet_rate 101, false at       *)
(* packet_rate 100 with temperature not above 60; it changes no state.     *)
(***************************************************************************)
C11_AnomalyThresholds ==
    \A a \in anomalies :
        /\ (a = TRUE) <=> (FGt(pkt.temperature, Fl(60)) \/ pkt.packet_rate > 100)
        /\ pkt.temperature = Fl(61) => a = TRUE
        /\ (pkt.temperature = Fl(60) /\ pkt.packet_rate <= 100) => a = FALSE
        /\ pkt.packet_rate = 101 => a = TRUE
        /\ (pkt.packet_rate = 100 /\ ~FGt(pkt.temperature, Fl(60))) => a = FALSE
        /\ batch_buffer = <<>> /\ cout = <<>> /\ seq_counter = 0 /\ calls = <<>>

\* false at temperature 60 with packet_rate 100
C11_Witness ==
    /\ pkt.temperature = Fl(60)
    /\ pkt.packet_rate = 100
    /\ anomalies = {FALSE}

(***************************************************************************)
(* More of what the claims observe.                                        *)
(***************************************************************************)
RECURSIVE Flatten(_)
Flatten(batches) ==
    IF Len(batches) = 0 THEN <<>>
    ELSE Flatten(SubSeq(batches, 1, Len(batches) - 1)) \o batches[Len(batches)]

\* Every packet the gateway holds or has delivered: the batches on the
\* sink in delivery order, then the buffer.
Stored == Flatten(SinkBatches(cout)) \o batch_buffer

Occurrences(q, packets) == Cardinality({k \in 1..Len(packets) : packets[k] = q})

(***************************************************************************)
(* C12.  Between process_packet calls the buffer holds 0 .. BATCH_SIZE - 1 *)
(* packets, never BATCH_SIZE or more: it reaches BATCH_SIZE only inside    *)
(* the call that appends the BATCH_SIZE-th packet, which flushes exactly   *)
(* BATCH_SIZE packets at once and leaves the buffer empty.                 *)
(***************************************************************************)
C12_BufferBelowThreshold ==
    /\ [](Len(batch_buffer) \in 0..(BATCH_SIZE - 1))
    /\ [][Len(flushes') > Len(flushes) =>
            /\ Len(batch_buffer) = BATCH_SIZE - 1
            /\ Len(SinkBatches(cout')[Len(flushes')]) = BATCH_SIZE
            /\ Len(batch_buffer') = 0
         ]_vars

\* a full buffer minus one, after a rejected call
C12_Witness ==
    /\ Len(batch_buffer) = BATCH_SIZE - 1
    /\ Len(calls) = BATCH_SIZE
    /\ flushes = <<>>

(***************************************************************************)
(* C13.  The sink gets one batch per flush, always the full batch: every   *)
(* batch on the sink holds exactly BATCH_SIZE (5) packets, and no partial  *)
(* batch is delivered, not even when the run ends with packets buffered.   *)
(***************************************************************************)
C13_FullBatchesOnly ==
    LET sent == SinkBatches(cout)
        headers == SelectSeq(cout, LAMBDA line : line.tag = "SENDING BATCH TO SERVER")
    IN  /\ Len(headers) = Len(flushes)
        /\ Len(sent) = Len(flushes)
        /\ \A k \in 1..Len(sent) : Len(sent[k]) = BATCH_SIZE
        /\ pc = "done" =>
              /\ Len(batch_buffer) = LOOP_COUNT - 2 * BATCH_SIZE
              /\ Len(sent) = 2
              /\ cout[Len(cout)].tag = "DEVICE LOG"

\* main has returned with two packets buffered and nothing written for them
C13_Witness ==
    /\ pc = "done"
    /\ Len(batch_buffer) = 2
    /\ Len(flushes) = 2
    /\ cout[Len(cout)].tag = "DEVICE LOG"
    /\ cout[Len(cout)].seq = 12

(***************************************************************************)
(* C14.  A rejected packet is dropped for good: the packets the gateway    *)
(* holds or has delivered are those of the accepting calls only, so the    *)
(* packet of a rejecting call is in neither the buffer nor a batch on its  *)
(* account, and no later call brings it back unless that call is given     *)
(* the packet again and accepts it.                                        *)
(***************************************************************************)
C14_RejectedNeverStored ==
    \A k \in 1..Len(calls) :
        LET q == calls[k].pkt IN
        /\ Occurrences(q, Stored) =
              Cardinality({j \in 1..Len(calls) : calls[j].pkt = q /\ IsAccepted(calls[j])})
        /\ (\A j \in 1..Len(calls) : calls[j].pkt = q => ~IsAccepted(calls[j]))
              => Occurrences(q, Stored) = 0

\* a packet rejected in one call and accepted in another is delivered once
C14_Witness ==
    /\ Len(flushes) = 1
    /\ Occurrences(AheadPacket, Flatten(SinkBatches(cout))) = 1
    /\ Cardinality({j \in 1..Len(calls) : calls[j].pkt = AheadPacket}) = 2
    /\ ~IsAccepted(calls[1])

(***************************************************************************)
(* C15.  The k-th generate_packet call returns sequence_no k: 1 at the     *)
(* first call, and each call more than the call before.                    *)
(***************************************************************************)
\* main logs every packet generate_packet returned, in call order
Generated == SelectSeq(cout, LAMBDA line : line.tag = "DEVICE LOG")

C15_SequenceNumbers ==
    /\ Len(Generated) = seq_counter
    /\ \A k \in 1..Len(Generated) : Generated[k].seq = k
    /\ \A k \in 2..Len(Generated) : Generated[k].seq > Generated[k - 1].seq
    /\ Len(Generated) > 0 => Generated[1].seq = 1
    /\ pc = "process" => pkt.sequence_no = Len(Generated)

\* the twelfth call has returned sequence_no 12
C15_Witness ==
    /\ pc = "process"
    /\ Len(Generated) = LOOP_COUNT
    /\ pkt.sequence_no = LOOP_COUNT

(***************************************************************************)
(* C16.  The pipeline does not consult is_anomalous: an anomalous packet   *)
(* that the validator accepts is appended and batched like any other       *)
(* accepted packet.                                                        *)
(***************************************************************************)
NotAnomalous(p) == ~is_anomalous(p)

C16_AnomalousAccepted ==
    /\ SelectSeq(Stored, is_anomalous) = SelectSeq(Accepted, is_anomalous)
    /\ SelectSeq(Stored, NotAnomalous) = SelectSeq(Accepted, NotAnomalous)
    /\ \A k \in 1..Len(calls) :
          (is_anomalous(calls[k].pkt) /\ IsAccepted(calls[k]))
              => Occurrences(calls[k].pkt, Stored) >= 1

\* one delivered batch holds anomalous and non-anomalous packets
C16_Witness ==
    /\ Len(SinkBatches(cout)) = 1
    /\ \E j, k \in 1..BATCH_SIZE :
          /\ is_anomalous(SinkBatches(cout)[1][j])
          /\ ~is_anomalous(SinkBatches(cout)[1][k])
          /\ FGt(SinkBatches(cout)[1][j].temperature, Fl(60))

(***************************************************************************)
(* C17.  main terminates: it makes exactly 12 iterations, each a           *)
(* generate_packet call followed by the process_packet call for that       *)
(* packet, completed before the next begins, and then returns 0.           *)
(***************************************************************************)
C17_MainTerminates ==
    /\ <>(pc = "done")
    /\ [](/\ Len(calls) <= Len(Generated)
          /\ Len(Generated) <= Len(calls) + 1
          /\ Len(Generated) <= 12
          /\ \A k \in 1..Len(calls) : calls[k].pkt.sequence_no = Generated[k].seq
          /\ pc = "process" <=> Len(Generated) = Len(calls) + 1
          /\ pc = "done" =>
                /\ exit_code = 0
                /\ i = 12
                /\ Len(Generated) = 12
                /\ Len(calls) = 12)
    /\ [][pc = "done" => pc' = "done"]_vars

\* main has returned 0 after twelve iterations
C17_Witness ==
    /\ pc = "done"
    /\ exit_code = 0
    /\ i = LOOP_COUNT
    /\ Len(Generated) = LOOP_COUNT

(***************************************************************************)
(* C18.  From an empty buffer, after any sequence of process_packet calls  *)
(* of which n were accepted, the number of flushes is floor(n / 5) and the *)
(* buffer holds n mod 5 packets; rejected packets count for neither.       *)
(***************************************************************************)
C18_FlushAndBufferCounts ==
    LET n == Len(Accepted) IN
    /\ Len(flushes) = n \div 5
    /\ Len(SinkBatches(cout)) = n \div 5
    /\ Len(batch_buffer) = n % 5
    /\ Len(SelectSeq(cout, LAMBDA line : line.tag = "INVALID PACKET DROPPED"))
          = Len(calls) - n

\* ten accepted packets and a rejected one: two flushes, nothing buffered
C18_Witness ==
    /\ Len(calls) = 11
    /\ Len(Accepted) = 10
    /\ Len(flushes) = 2
    /\ Len(batch_buffer) = 0
    /\ ~IsAccepted(calls[11])

(***************************************************************************)
(* C19.  Over the whole history the batches delivered to the sink,         *)
(* concatenated in delivery order and followed by the buffer, are the      *)
(* accepted packets in arrival order; no packet is in two batches, and     *)
(* with generate_packet's strictly increasing sequence numbers the         *)
(* delivered sequence numbers strictly increase across batches.            *)
(***************************************************************************)
StrictlyIncreasing(ns) == \A j, k \in 1..Len(ns) : j < k => ns[j] < ns[k]

C19_DeliveredIsAcceptedPrefix ==
    LET batches == SinkBatches(cout)
        delivered == Flatten(batches)
    IN  /\ Stored = Accepted
        /\ delivered = SubSeq(Accepted, 1, Len(delivered))
        /\ \A a, b \in 1..Len(batches) :
               a # b => \A k \in 1..Len(batches[a]) : Occurrences(batches[a][k], batches[b]) = 0
        /\ StrictlyIncreasing(SeqNos(Accepted)) => StrictlyIncreasing(SeqNos(delivered))
        /\ StrictlyIncreasing(SeqNos(Accepted))
        /\ \A a \in 1..Len(batches) : a > 1 =>
               batches[a - 1][Len(batches[a - 1])].sequence_no < batches[a][1].sequence_no

\* two batches delivered and an eleventh packet waiting in the buffer
C19_Witness ==
    /\ Len(SinkBatches(cout)) = 2
    /\ Len(calls) = 11
    /\ SeqNos(Flatten(SinkBatches(cout))) = <<1, 2, 3, 4, 5, 6, 7, 8, 9, 10>>
    /\ SeqNos(batch_buffer) = <<11>>

(***************************************************************************)
(* C20.  Every packet generate_packet produces, processed no earlier than  *)
(* it was created, passes validation: sequence_no >= 1, temperature        *)
(* 25..34, cpu_usage 20..79, battery_level 30..99, timestamp <= now.  So   *)
(* main's run rejects no packet and accepts all 12.                        *)
(***************************************************************************)
InGeneratedRanges(p) ==
    /\ p.sequence_no >= 1
    /\ ~p.temperature.nan /\ p.temperature.val \in 25..34
    /\ ~p.cpu_usage.nan /\ p.cpu_usage.val \in 20..79
    /\ ~p.battery_level.nan /\ p.battery_level.val \in 30..99

C20_GeneratedAlwaysAccepted ==
    /\ \A k \in 1..Len(calls) :
          /\ InGeneratedRanges(calls[k].pkt)
          /\ calls[k].pkt.timestamp <= calls[k].now
          /\ IsAccepted(calls[k])
    /\ pc = "process" => /\ InGeneratedRanges(pkt)
                         /\ pkt.timestamp <= time
                         /\ validate_packet(pkt)
    /\ Len(Accepted) = Len(calls)
    /\ \A k \in 1..Len(cout) : cout[k].tag # "INVALID PACKET DROPPED"
    /\ pc = "done" => Len(Accepted) = 12

\* all 12 accepted, with a packet at the top of every range that was
\* processed after the clock had moved on from its creation
C20_Witness ==
    /\ pc = "done"
    /\ Len(Accepted) = 12
    /\ \E k \in 1..Len(calls) :
          /\ calls[k].pkt.temperature.val = 34
          /\ calls[k].pkt.cpu_usage.val = 79
          /\ calls[k].pkt.battery_level.val = 99
          /\ calls[k].pkt.timestamp < calls[k].now

====
